---- MODULE Spec2Model ----
(***************************************************************************)
(* Cyllenian: a forking HTTPS static-file server.                          *)
(*                                                                         *)
(* The module models one connection handler (handle_client, client.c) as  *)
(* a sequence of steps, together with the pure functions it calls:        *)
(* the request parser and response resolver (response.c), the path        *)
(* security validator (paths_security.c), the path builder (paths.c),     *)
(* the file primitives (file.c) and the header builder (response.c,       *)
(* mime.c).  C strings are TLA+ strings; the byte at position i of s is   *)
(* SubSeq(s, i, i), positions counted from 1.                             *)
(*                                                                         *)
(* Spec runs one process from main through handle_client, CallSpec calls  *)
(* one function on its own, ServerSpec runs the listening process, the    *)
(* children it forks and the SIGINT handler (server.c, signals.c), and    *)
(* FairServerSpec is ServerSpec under a fair scheduler.                   *)
(***************************************************************************)
EXTENDS Integers, Sequences, FiniteSets, TLC

(***************************************************************************)
(* Bounds of the model.                                                    *)
(***************************************************************************)
\* longest run of '/' characters used when building request targets
MaxSlashes == 2
\* number of filesystem changes the environment makes during one connection
MaxFsChanges == 1
\* longest path, in characters, given to normalize_request_path on its own
MaxPathLen == 5
\* most pieces a path given to contains_traversal_patterns is made of
MaxPieces == 3
\* number of connections the listening process accepts
MaxConnections == 2

(***************************************************************************)
(* Program constants.                                                      *)
(***************************************************************************)
METHOD_LENGTH == 5
MAX_HEADER == 1024
MAX_CONTENT_TYPE == 128
NUM_OF_MIME_TYPES == 14
NUM_OF_RESPONSE_CODES == 5
BUFFER_SIZE == 1048576
\* <linux/limits.h>
PATH_MAX == 4096

\* the value of the HOME environment variable (getenv in paths.c)
HOME == "/h"
\* a NULL pointer / absent string
NULL == "<NULL>"

(***************************************************************************)
(* String helpers (libc).                                                  *)
(***************************************************************************)
Min(a, b) == IF a < b THEN a ELSE b

CharAt(s, i) == IF i >= 1 /\ i <= Len(s) THEN SubSeq(s, i, i) ELSE ""

\* the first n bytes of s (all of s when it is shorter), as strncmp sees them
Prefix(s, n) == SubSeq(s, 1, Min(n, Len(s)))

\* the bytes of s from position i to its end
Suffix(s, i) == IF i > Len(s) THEN "" ELSE SubSeq(s, i, Len(s))

\* strstr(s, pat) != NULL
strstr(s, pat) ==
  \E i \in 1..(Len(s) - Len(pat) + 1) : SubSeq(s, i, i + Len(pat) - 1) = pat

\* strchr: position of the first c in s at or after position i, 0 when
\* there is none
RECURSIVE StrchrFrom(_, _, _)
StrchrFrom(s, c, i) ==
  IF i > Len(s) THEN 0
  ELSE IF SubSeq(s, i, i) = c THEN i
  ELSE StrchrFrom(s, c, i + 1)

strchr(s, c) == StrchrFrom(s, c, 1)

\* strrchr: position of the last c in s at or before position i, 0 when
\* there is none
RECURSIVE StrrchrFrom(_, _, _)
StrrchrFrom(s, c, i) ==
  IF i < 1 THEN 0
  ELSE IF SubSeq(s, i, i) = c THEN i
  ELSE StrrchrFrom(s, c, i - 1)

strrchr(s, c) == StrrchrFrom(s, c, Len(s))

(***************************************************************************)
(* paths_security.c                                                        *)
(***************************************************************************)
\* the table without its double-encoded entries
traversal_patterns_SingleEncoded ==
  << "../", "%2e%2e%2f", "%2e%2e/", "..%2f", "%2e%2e%5c", "%2e%2e\\",
     "..%5c", "..\\" >>

traversal_patterns ==
  << "../", "%2e%2e%2f", "%2e%2e/", "..%2f", "%2e%2e%5c", "%2e%2e\\",
     "..%5c", "%252e%252e%255c", "..%255c", "..\\" >>

contains_traversal_patterns(file_request) ==
  \E i \in 1..Len(traversal_patterns) :
     strstr(file_request, traversal_patterns[i])

\* the copy loop skipping any character that equals the one after it
RECURSIVE NormalizeLoop_AnyRepeat(_, _, _)
NormalizeLoop_AnyRepeat(s, src, dst) ==
  IF src > Len(s) THEN dst
  ELSE IF CharAt(s, src) = CharAt(s, src + 1)
         THEN NormalizeLoop_AnyRepeat(s, src + 1, dst)
         ELSE NormalizeLoop_AnyRepeat(s, src + 1, dst \o CharAt(s, src))

\* the copy loop of normalize_request_path: src is the read position,
\* dst the bytes written so far
RECURSIVE NormalizeLoop(_, _, _)
NormalizeLoop(s, src, dst) ==
  IF src > Len(s) THEN dst
  ELSE IF CharAt(s, src) = "/" /\ CharAt(s, src + 1) = "/"
         THEN NormalizeLoop(s, src + 1, dst)
         ELSE NormalizeLoop(s, src + 1, dst \o CharAt(s, src))

\* the end of normalize_request_path keeping a trailing '/'
StripTrailingSlash_Never(dst) == dst

\* the end of normalize_request_path: one trailing '/' is dropped
StripTrailingSlash(dst) ==
  IF dst # "" /\ CharAt(dst, Len(dst)) = "/"
    THEN SubSeq(dst, 1, Len(dst) - 1)
    ELSE dst

\* normalize_request_path without the loop that collapses runs of '/'
normalize_request_path_KeepSlashes(file_request) ==
  StripTrailingSlash(file_request)

normalize_request_path(file_request) ==
  StripTrailingSlash(NormalizeLoop(file_request, 1, ""))

(***************************************************************************)
(* paths.c                                                                 *)
(***************************************************************************)
\* prepend_program_data_path with HOME set and a non-NULL buffer
prepend_program_data_path(original_path) ==
  HOME \o "/.local/share/cyllenian/" \o original_path

\* the website root directory (without the trailing slash)
WebsiteRoot == HOME \o "/.local/share/cyllenian/website"

fallback_website_path == "/etc/cyllenian/website"

(***************************************************************************)
(* The filesystem (stat in file.c).  A canonical path is a string of      *)
(* "/name" segments; the root directory is the empty string.              *)
(***************************************************************************)
\* value of a path lookup that fails (stat returns -1)
NOENT == "<ENOENT>"

\* directories that exist for the whole run: the website root (checked at
\* startup by website_dir_exists), one sub-directory of it, and the
\* system-wide fallback directory
Dirs ==
  { "", HOME, HOME \o "/.local", HOME \o "/.local/share",
    HOME \o "/.local/share/cyllenian",
    WebsiteRoot, WebsiteRoot \o "/a",
    "/etc", "/etc/cyllenian", fallback_website_path }

ErrorPages == { "403.html", "404.html", "405.html" }

\* regular files served as content; the extension of c.bin is not in the
\* MIME table
ContentFiles ==
  { WebsiteRoot \o "/index.html", WebsiteRoot \o "/b.html",
    WebsiteRoot \o "/a/b.html", WebsiteRoot \o "/c.bin" }

CustomErrorFiles == { WebsiteRoot \o "/" \o e : e \in ErrorPages }

FallbackErrorFiles == { fallback_website_path \o "/" \o e : e \in ErrorPages }

\* the filesystem contents a run may start with: the content, with none,
\* one or all of the custom error pages, with or without the fallback pages
InitialFiles ==
  { c \cup e \cup f :
      c \in { ContentFiles },
      e \in { {}, { WebsiteRoot \o "/404.html" }, CustomErrorFiles },
      f \in { {}, FallbackErrorFiles } }

Parent(cur) ==
  IF cur = "" THEN "" ELSE SubSeq(cur, 1, strrchr(cur, "/") - 1)

\* resolve one path segment seg in directory cur
WalkSegment(fs, cur, seg) ==
  IF cur = NOENT THEN NOENT
  ELSE IF seg = "" \/ seg = "." THEN cur
  ELSE IF seg = ".." THEN Parent(cur)
  ELSE IF (cur \o "/" \o seg) \in (Dirs \cup fs)
         THEN cur \o "/" \o seg
         ELSE NOENT

\* what precedes a '/' has to be a directory
DirectoryOrNoent(d) == IF d \in Dirs THEN d ELSE NOENT

\* kernel path resolution, byte by byte: cur is the directory reached so
\* far, seg the segment being read; a '/' requires what precedes it to be a
\* directory
RECURSIVE Walk(_, _, _, _, _)
Walk(fs, path, i, cur, seg) ==
  IF cur = NOENT THEN NOENT
  ELSE IF i > Len(path) THEN WalkSegment(fs, cur, seg)
  ELSE IF CharAt(path, i) = "/"
         THEN Walk(fs, path, i + 1,
                   DirectoryOrNoent(WalkSegment(fs, cur, seg)), "")
         ELSE Walk(fs, path, i + 1, cur, seg \o CharAt(path, i))

\* the canonical path stat() reaches for an absolute path, or NOENT
Stat(fs, path) ==
  IF path = "" \/ CharAt(path, 1) # "/" THEN NOENT
  ELSE Walk(fs, path, 1, "", "")

(***************************************************************************)
(* response.c: request parser                                              *)
(***************************************************************************)
\* get_method comparing without regard to case
get_method_IgnoreCase(request_buffer) ==
  IF Prefix(request_buffer, 3) \in { "GET", "get" } THEN "GET"
  ELSE IF Prefix(request_buffer, 4) \in { "HEAD", "head" } THEN "HEAD"
  ELSE NULL

get_method(request_buffer) ==
  IF Prefix(request_buffer, 3) = "GET" THEN "GET"
  ELSE IF Prefix(request_buffer, 4) = "HEAD" THEN "HEAD"
  ELSE NULL

\* request_buffer + METHOD_LENGTH lies past the terminator of the copy made
\* by strdup when the request has fewer than METHOD_LENGTH bytes
ReadsOutsideBuffer(request_buffer) == Len(request_buffer) < METHOD_LENGTH

\* what the memory after the end of the copied request may hold: prev is
\* the byte just before request_buffer + METHOD_LENGTH, rest the string
\* that starts there
Garbage ==
  { [prev |-> p, rest |-> r] :
      p \in { "", "/" },
      r \in { "", "x", "index.html", "../x", "y/", "x y" } }

\* stands for the bytes beyond the buffer when none of them is read
NoGarbage == [ prev |-> "", rest |-> "" ]

\* the end of isolate_file_request: file_request is the target cut at the
\* first space, prev the byte before it
RejectTrailingSlash(prev, file_request) ==
  IF (IF file_request = "" THEN prev
      ELSE CharAt(file_request, Len(file_request))) = "/"
    THEN NULL
    ELSE file_request

\* strchr(file_request, ' ') and the terminator written at that position
CutAtSpace(rest, space_position) ==
  IF space_position > 0 THEN SubSeq(rest, 1, space_position - 1) ELSE rest

\* isolate_file_request: g is used only for the bytes beyond the buffer
isolate_file_request(request_buffer, g) ==
  IF ~ReadsOutsideBuffer(request_buffer)
    THEN RejectTrailingSlash(
           CharAt(request_buffer, METHOD_LENGTH),
           CutAtSpace(Suffix(request_buffer, METHOD_LENGTH + 1),
                      strchr(Suffix(request_buffer, METHOD_LENGTH + 1), " ")))
    ELSE RejectTrailingSlash(
           IF Len(request_buffer) = METHOD_LENGTH - 1 THEN "" ELSE g.prev,
           CutAtSpace(g.rest, strchr(g.rest, " ")))

\* the path get_requested_file_path leaves in path_buffer when
\* isolate_file_request returned isolated
RequestedFilePath(isolated) ==
  prepend_program_data_path("website/")
    \o (IF isolated = NULL THEN "404.html" ELSE isolated)

(***************************************************************************)
(* file.c                                                                  *)
(***************************************************************************)
\* file_exists(filename) on filesystem contents fs
file_exists(fs, filename) == Stat(fs, filename) # NOENT

\* get_file_extension: the bytes after the last '.', NULL without a '.'
get_file_extension(file_path) ==
  LET dot == strrchr(file_path, ".")
  IN  IF dot = 0 THEN NULL ELSE Suffix(file_path, dot + 1)

\* read_file: the bytes of a regular file, named here by the file they come
\* from; NULL when the path cannot be opened or read (missing, a directory)
FileBytes(fs, canonical) ==
  IF canonical \in fs THEN "bytes of " \o canonical ELSE NULL

read_file(fs, file_path) == FileBytes(fs, Stat(fs, file_path))

(***************************************************************************)
(* response.c: response resolver                                           *)
(***************************************************************************)
\* the path of the custom error page probed first by handle_error_case
CustomErrorPath(error_page) ==
  prepend_program_data_path("website/") \o error_page

\* handle_error_case that never uses the custom page it probed
handle_error_case_FallbackOnly(fs, error_page) ==
  [ path   |-> fallback_website_path \o "/" \o error_page,
    probed |-> << CustomErrorPath(error_page) >> ]

\* handle_error_case when no allocation fails: the path left in
\* *file_request and the paths it passed to file_exists
handle_error_case(fs, error_page) ==
  [ path   |-> IF file_exists(fs, CustomErrorPath(error_page))
                 THEN CustomErrorPath(error_page)
                 ELSE fallback_website_path \o "/" \o error_page,
    probed |-> << CustomErrorPath(error_page) >> ]

\* the error exit of determine_response_code: status code, the checks run
\* and the probes made before handle_error_case(error_page)
ErrorCase(fs, code, error_page, done, probes) ==
  [ code   |-> code,
    path   |-> handle_error_case(fs, error_page).path,
    checks |-> done,
    probed |-> probes \o handle_error_case(fs, error_page).probed ]

\* the checks on the normalized path with the existence check made before
\* the traversal check
DetermineNormalized_ExistsFirst(fs, normalized) ==
  IF ~file_exists(fs, normalized)
    THEN ErrorCase(fs, 404, "404.html",
                   << "method", "normalize", "traversal", "exists" >>,
                   << normalized >>)
  ELSE IF contains_traversal_patterns(normalized)
    THEN ErrorCase(fs, 403, "403.html",
                   << "method", "normalize", "traversal" >>, << >>)
  ELSE [ code   |-> 200,
         path   |-> normalized,
         checks |-> << "method", "normalize", "traversal", "exists" >>,
         probed |-> << normalized >> ]

\* determine_response_code after normalize_request_path(*file_request)
DetermineNormalized(fs, normalized) ==
  IF contains_traversal_patterns(normalized)
    THEN ErrorCase(fs, 403, "403.html",
                   << "method", "normalize", "traversal" >>, << >>)
  ELSE IF ~file_exists(fs, normalized)
    THEN ErrorCase(fs, 404, "404.html",
                   << "method", "normalize", "traversal", "exists" >>,
                   << normalized >>)
  ELSE [ code   |-> 200,
         path   |-> normalized,
         checks |-> << "method", "normalize", "traversal", "exists" >>,
         probed |-> << normalized >> ]

\* determine_response_code when no allocation fails: the status, the path
\* left in *file_request, the checks it ran in the order it ran them, and
\* the paths it passed to file_exists
determine_response_code(fs, request_buffer, file_request) ==
  IF get_method(request_buffer) = NULL
    THEN ErrorCase(fs, 405, "405.html", << "method" >>, << >>)
    ELSE DetermineNormalized(fs, normalize_request_path(file_request))

(***************************************************************************)
(* mime.c                                                                  *)
(***************************************************************************)
\* the printable ASCII characters in code order: codes 35..95 and 97..126
\* (the double quote, 34, and the backquote, 96, cannot be written in a
\* string of this language and do not occur in the paths of the model)
AsciiFrom35 ==
  "#$%&'()*+,-./0123456789:;<=>?@ABCDEFGHIJKLMNOPQRSTUVWXYZ[\\]^_"
AsciiFrom97 == "abcdefghijklmnopqrstuvwxyz{|}~"

\* the code of a one-byte string; 0 for the terminator
Ord(c) ==
  IF c = "" THEN 0
  ELSE IF c = " " THEN 32
  ELSE IF c = "!" THEN 33
  ELSE IF strchr(AsciiFrom35, c) > 0 THEN 34 + strchr(AsciiFrom35, c)
  ELSE 96 + strchr(AsciiFrom97, c)

\* strcmp(a, b): negative, zero or positive
RECURSIVE StrcmpFrom(_, _, _)
StrcmpFrom(a, b, i) ==
  IF CharAt(a, i) # CharAt(b, i)
    THEN Ord(CharAt(a, i)) - Ord(CharAt(b, i))
  ELSE IF i > Len(a) THEN 0
  ELSE StrcmpFrom(a, b, i + 1)

strcmp(a, b) == StrcmpFrom(a, b, 1)

mime_type_associations ==
  << [extension |-> "css",  mime_type |-> "text/css"],
     [extension |-> "gif",  mime_type |-> "image/gif"],
     [extension |-> "htm",  mime_type |-> "text/html"],
     [extension |-> "html", mime_type |-> "text/html"],
     [extension |-> "jpeg", mime_type |-> "image/jpeg"],
     [extension |-> "jpg",  mime_type |-> "image/jpeg"],
     [extension |-> "js",   mime_type |-> "text/javascript"],
     [extension |-> "json", mime_type |-> "application/json"],
     [extension |-> "mp3",  mime_type |-> "audio/mpeg"],
     [extension |-> "mp4",  mime_type |-> "video/mp4"],
     [extension |-> "png",  mime_type |-> "image/png"],
     [extension |-> "svg",  mime_type |-> "image/svg+xml"],
     [extension |-> "ttf",  mime_type |-> "font/ttf"],
     [extension |-> "xml",  mime_type |-> "application/xml"] >>

\* width given to unsigned int: the bounds of the search are unsigned and
\* wrap modulo 2^width; 30 is the largest width whose sums the model
\* checker's integers hold, and the search behaves alike for every width
\* above 4 (a wrapped bound lies far outside the table)
UINT_WIDTH == 30

\* outcomes of the binary search other than a table index
NOT_FOUND == -1
OUT_OF_TABLE == -2

\* the while loop of get_content_type on unsigned lower and upper bounds:
\* the index of the match (from 0), NOT_FOUND, or OUT_OF_TABLE when the
\* table is indexed outside 0..NUM_OF_MIME_TYPES-1
RECURSIVE BinarySearch(_, _, _)

\* one round of the loop with middle_value and comparison_result (cmp) computed
SearchStep(lower_bound, upper_bound, file_extension, middle_value, cmp) ==
  IF cmp < 0
    THEN BinarySearch(middle_value + 1, upper_bound, file_extension)
  ELSE IF cmp = 0 THEN middle_value
  ELSE BinarySearch(lower_bound, (middle_value - 1) % (2 ^ UINT_WIDTH),
                    file_extension)

\* one round of the loop with middle_value computed
SearchAt(lower_bound, upper_bound, file_extension, middle_value) ==
  IF middle_value >= NUM_OF_MIME_TYPES THEN OUT_OF_TABLE
  ELSE SearchStep(lower_bound, upper_bound, file_extension, middle_value,
                  strcmp(mime_type_associations[middle_value + 1].extension,
                         file_extension))

BinarySearch(lower_bound, upper_bound, file_extension) ==
  IF lower_bound > upper_bound THEN NOT_FOUND
  ELSE SearchAt(lower_bound, upper_bound, file_extension,
                ((lower_bound + upper_bound) % (2 ^ UINT_WIDTH)) \div 2)

\* the index get_content_type finds for the extension of file_request
MimeIndex(file_request) ==
  BinarySearch(0, NUM_OF_MIME_TYPES - 1, get_file_extension(file_request))

\* the end of get_content_type: index is what the search found
ContentTypeLine(index, uninit) ==
  IF index >= 0
    THEN "Content-Type: " \o mime_type_associations[index + 1].mime_type
           \o "\r\n\r\n"
    ELSE uninit

\* get_content_type: the Content-Type line written to content_type;
\* uninit is what the buffer held before the call and still holds when the
\* function returns without writing it
get_content_type(file_request, uninit) ==
  IF get_file_extension(file_request) = NULL
    THEN "Content-Type: text/plain\r\n\r\n"
    ELSE ContentTypeLine(MimeIndex(file_request), uninit)

(***************************************************************************)
(* response.c: header builder                                              *)
(***************************************************************************)
\* the status table; the array has NUM_OF_RESPONSE_CODES slots and the
\* initializer fills four of them, the last slot is zero-filled
response_code_associations ==
  << [code |-> 200, message |-> "HTTP/1.1 200 OK"],
     [code |-> 403, message |-> "HTTP/1.1 403 Forbidden"],
     [code |-> 404, message |-> "HTTP/1.1 404 Not Found"],
     [code |-> 405, message |-> "HTTP/1.1 405 Method Not Allowed"],
     [code |-> 0,   message |-> ""] >>

\* get_response_code_msg: the status line, NULL for the return value -1
get_response_code_msg(response_code) ==
  IF \E i \in 1..NUM_OF_RESPONSE_CODES :
        response_code_associations[i].code = response_code
    THEN LET i == CHOOSE k \in 1..NUM_OF_RESPONSE_CODES :
                    /\ response_code_associations[k].code = response_code
                    /\ \A j \in 1..(k - 1) :
                          response_code_associations[j].code # response_code
         IN  response_code_associations[i].message \o "\r\n"
    ELSE NULL

server_name == "Server: Cyllenian\r\n"

\* construct_header once the status line and the Content-Type line are
\* known
AssembleHeader(response_code_msg, content_type) ==
  IF response_code_msg = NULL THEN NULL
  ELSE IF ~(Len(response_code_msg) < MAX_HEADER) THEN NULL
  ELSE IF ~(Len(content_type) < MAX_HEADER - Len(response_code_msg))
    THEN NULL
  ELSE response_code_msg \o server_name
         \o Prefix(content_type, MAX_HEADER - Len(response_code_msg) - 1)

\* construct_header when malloc succeeds: the header, or NULL
construct_header(response_code, file_request, uninit) ==
  AssembleHeader(get_response_code_msg(response_code),
                 get_content_type(file_request, uninit))

(***************************************************************************)
(* Requests a client may send.  A request is kept as the pieces it is     *)
(* made of: the method token, what separates it from the target, the      *)
(* target, and what follows the target.                                    *)
(***************************************************************************)
RECURSIVE Slashes(_)
Slashes(k) == IF k = 0 THEN "" ELSE "/" \o Slashes(k - 1)

Heads ==
  { "", "/" } \cup { "/a" \o Slashes(k) : k \in 1..MaxSlashes }

Mids ==
  { traversal_patterns[i] : i \in 1..Len(traversal_patterns) }
    \cup { "", "..", "index.html" }

Tails == { "", "b.html", "c.bin", "/" }

Targets == { h \o m \o t : h \in Heads, m \in Mids, t \in Tails }

\* complete request lines with a supported method
SupportedRequests ==
  [ token : { "GET", "HEAD" }, sep : { " " }, target : Targets,
    version : { " HTTP/1.1" } ]

\* request lines whose method token is not GET or HEAD
OtherRequests ==
  [ token : { "POST", "PUT", "DELETE", "", "get", "GETX", "HEADER" },
    sep : { " " },
    target : { "/index.html", "/../b.html", "/a/", "/nope" },
    version : { " HTTP/1.1" } ]

\* requests cut off inside the method token, right after it, or after the
\* target
TruncatedRequests ==
  [ token : { "G", "GET", "HEAD", "PUT" }, sep : { "" },
    target : { "" }, version : { "" } ]
    \cup
  [ token : { "GET", "HEAD", "PUT" }, sep : { " " },
    target : { "", "/", "a", "/index.html", "/.." }, version : { "" } ]

Requests == SupportedRequests \cup OtherRequests \cup TruncatedRequests

\* the bytes of a request
Bytes(r) == r.token \o r.sep \o r.target \o r.version

NoRequest == [ token |-> "", sep |-> "", target |-> "", version |-> "" ]

(***************************************************************************)
(* server.c: the processes.  Process 0 is the listening process; process i *)
(* is the child forked for the i-th accepted connection.  A process is a   *)
(* record: its position (pc), the fields of its copy of the static struct  *)
(* server (ssl, ssl_ctx, sockfd), the TLS objects allocated in its memory  *)
(* (live), its open descriptors (open), the misuses of free() and close()  *)
(* it committed (misuse), and locals of server_init: serving_clients, the  *)
(* return value (ret, meaningful at pc = "returned"), the startup step     *)
(* that failed (failed), and counts of calls to accept, to SSL_CTX_new and *)
(* of interrupts handled.                                                  *)
(***************************************************************************)
LISTENER == 0

Children == 1..MaxConnections

Processes == { LISTENER } \cup Children

\* the TLS context object made by SSL_CTX_new
CTX == "ssl_ctx"

\* the sentinel server_ctx_init gives sockfd
SOCKFD_UNSET == -2

\* the descriptor socket() returns, and the one accept() returns for the
\* i-th connection
LISTEN_FD == 3

ClientFd(i) == LISTEN_FD + i

\* a process that does not exist
NoProcess ==
  [ pc |-> "none", ssl |-> NULL, ssl_ctx |-> NULL, sockfd |-> SOCKFD_UNSET,
    live |-> {}, open |-> {}, misuse |-> {}, serving_clients |-> 1,
    ret |-> 0, failed |-> "", accepts |-> 0, created |-> 0,
    interrupts |-> 0, after_failures |-> 0 ]

\* the listening process after server_ctx_init, about to call server_init
server_ctx_init == [ NoProcess EXCEPT !.pc = "OPENSSL_init_ssl" ]

\* free of a TLS object through pointer ptr: freeing what is not allocated
\* any more is a misuse
Free(p, ptr, what) ==
  IF ptr = NULL THEN p
  ELSE IF ptr \in p.live THEN [ p EXCEPT !.live = @ \ { ptr } ]
  ELSE [ p EXCEPT !.misuse = @ \cup { what \o " of freed memory" } ]

\* close(fd): closing a descriptor that is not open is a misuse
Close(p, fd) ==
  IF fd \in p.open THEN [ p EXCEPT !.open = @ \ { fd } ]
  ELSE [ p EXCEPT !.misuse = @ \cup { "close of unopened descriptor" } ]

\* the end of server_cleanup: close(server.sockfd) unless it is the sentinel
CloseUnlessUnset(p) ==
  IF p.sockfd # SOCKFD_UNSET THEN Close(p, p.sockfd) ELSE p

\* server_cleanup in process p; no field of server is reset
ServerCleanup(p) ==
  CloseUnlessUnset(Free(Free(p, p.ssl, "SSL_free"), p.ssl_ctx, "SSL_CTX_free"))

\* p freed memory that was not allocated
FreedTwice(p) == \E m \in p.misuse : m # "close of unopened descriptor"

\* how a process may go on after its cleanup: a free of freed memory may
\* also abort it
PcAfter(p, normal) ==
  IF FreedTwice(p) THEN { normal, "crashed" } ELSE { normal }

\* the process ends: the kernel closes its descriptors and releases its
\* memory, the server context with it
Ended(p, how) ==
  [ p EXCEPT !.pc = how, !.open = {}, !.live = {}, !.ssl = NULL,
             !.ssl_ctx = NULL, !.sockfd = SOCKFD_UNSET ]

\* server_init returns value after the failure of startup step
ReturnFailed(p, step) ==
  [ p EXCEPT !.pc = "returned", !.ret = -1, !.failed = step ]

\* the end of server_init after the accept loop: close(server.sockfd) and
\* return 0
LeaveLoop(p, serving) ==
  [ Close(p, p.sockfd) EXCEPT !.pc = "returned", !.ret = 0,
                              !.serving_clients = serving ]

\* no process runs
NoProcesses == [ i \in Processes |-> NoProcess ]

\* the positions of the children before the listening process is interrupted
NotInterrupted == [ i \in Children |-> "" ]

(***************************************************************************)
(* State of one connection handler (a forked child running handle_client) *)
(***************************************************************************)
VARIABLES
  process,        \* the listening process and its children
  at_interrupt,   \* positions of the children when the listener got SIGINT
  website_dir,    \* the website root directory exists
  call,           \* a function called on its own: name, arguments, result
  pc,             \* the step of the process to run next
  files,          \* regular files that exist on disk
  fsChanges,      \* number of changes the environment made to files
  req,            \* the request the client sent, in pieces
  request_buffer, \* handle_client: request_buffer
  file_request,   \* get_requested_file_path: result of isolate_file_request
  oob,            \* isolate_file_request read outside the request copy
  path_buffer,    \* handle_client: path_buffer
  response_code,  \* handle_client: response_code (0: not assigned)
  checks,         \* checks run by determine_response_code, in order
  probed,         \* paths determine_response_code passed to file_exists
  header,         \* handle_client: header
  response_file,  \* write_to_client: response_file
  file_size,      \* handle_client: file_size, "unset" until read_file sets it
  sent,           \* what was written to the client, in order
  close_notify,   \* SSL_shutdown: "none" before the call, then its outcome
  ssl,            \* server.ssl: NULL or the session
  released        \* how often each resource was released in this process

vars ==
  << process, at_interrupt, website_dir, call, pc, files, fsChanges, req, request_buffer, file_request, oob,
     path_buffer, response_code, checks, probed, header, response_file,
     file_size, sent, close_notify, ssl, released >>

\* what no step of the server process changes
startVars == << process, at_interrupt, website_dir, call >>

\* the request and what was derived from it
requestVars ==
  << req, request_buffer, file_request, oob, path_buffer, response_code,
     checks, probed >>

\* the response being built and sent
responseVars == << header, response_file, file_size, sent, close_notify >>

SESSION == "session"

\* server_cleanup: SSL_free when server.ssl is not NULL, SSL_CTX_free when
\* server.ssl_ctx is not NULL, close when server.sockfd is not -2; no field
\* is reset afterwards
server_cleanup(sslv, rel) ==
  [ rel EXCEPT !.ssl     = @ + (IF sslv # NULL THEN 1 ELSE 0),
               !.ssl_ctx = @ + 1,
               !.sockfd  = @ + 1 ]

\* no function is being called on its own
NoCall == [ fn |-> "" ]

\* website_dir_exists when malloc succeeds; present tells whether the
\* website root directory exists (Dirs holds it in the runs that get past
\* this check)
website_dir_exists(present, fs) ==
  present /\ file_exists(fs, prepend_program_data_path("website/"))

\* the process starts in main, on a filesystem with or without the website
\* root directory
Init ==
  /\ pc = "main"
  /\ website_dir \in BOOLEAN
  /\ call = NoCall
  /\ process = NoProcesses
  /\ at_interrupt = NotInterrupted
  /\ files \in (IF website_dir THEN InitialFiles
                ELSE { {}, FallbackErrorFiles })
  /\ fsChanges = 0
  /\ req = NoRequest
  /\ request_buffer = ""
  /\ file_request = NULL
  /\ oob = FALSE
  /\ path_buffer = NULL
  /\ response_code = 0
  /\ checks = << >>
  /\ probed = << >>
  /\ header = NULL
  /\ response_file = NULL
  /\ file_size = "unset"
  /\ sent = << >>
  /\ close_notify = "none"
  /\ ssl = NULL
  /\ released = [ ssl |-> 0, ssl_ctx |-> 0, sockfd |-> 0, clientfd |-> 0 ]

\* main: the startup check website_dir_exists, then server_init up to the
\* child forked by client_loop for an accepted connection; the child closes
\* its copy of the listening socket and runs handle_client
Main ==
  /\ pc = "main"
  /\ IF website_dir_exists(website_dir, files)
       THEN \/ /\ pc' = "setup_ssl"
               /\ released' = [ released EXCEPT !.sockfd = @ + 1 ]
            \/ \* init_ssl_ctx or init_socket fails
               /\ pc' = "exited"
               /\ UNCHANGED released
       ELSE /\ pc' = "exited"
            /\ UNCHANGED released
  /\ UNCHANGED << startVars, files, fsChanges, requestVars, responseVars,
                  ssl >>

\* setup_ssl: SSL_new, SSL_set_fd, SSL_accept
SetupSsl ==
  /\ pc = "setup_ssl"
  /\ \E outcome \in { "ok", "SSL_new", "SSL_set_fd", "SSL_accept" } :
       /\ ssl' = IF outcome = "SSL_new" THEN NULL ELSE SESSION
       /\ IF outcome = "ok"
            THEN /\ pc' = "read_from_client"
                 /\ UNCHANGED released
            ELSE /\ pc' = "returned"
                 /\ released' = server_cleanup(ssl', released)
  /\ UNCHANGED << startVars, files, fsChanges, requestVars, responseVars >>

\* read_from_client: one SSL_read into request_buffer
ReadFromClient ==
  /\ pc = "read_from_client"
  /\ \/ \E r \in Requests :
          /\ req' = r
          /\ request_buffer' = Bytes(r)
          /\ pc' = "alloc_path_buffer"
          /\ UNCHANGED released
     \/ /\ pc' = "returned"
        /\ released' = server_cleanup(ssl, released)
        /\ UNCHANGED << req, request_buffer >>
  /\ UNCHANGED << startVars, files, fsChanges, file_request, oob, path_buffer,
                  response_code, checks, probed, responseVars, ssl >>

\* handle_client: path_buffer = malloc(PATH_MAX)
AllocPathBuffer ==
  /\ pc = "alloc_path_buffer"
  /\ \/ /\ path_buffer' = ""
        /\ pc' = "get_requested_file_path"
        /\ UNCHANGED released
     \/ /\ pc' = "returned"
        /\ released' = server_cleanup(ssl, released)
        /\ UNCHANGED path_buffer
  /\ UNCHANGED << startVars, files, fsChanges, req, request_buffer, file_request, oob,
                  response_code, checks, probed, responseVars, ssl >>

\* process_request, first half: get_requested_file_path
GetRequestedFilePath ==
  /\ pc = "get_requested_file_path"
  /\ \/ \E g \in (IF ReadsOutsideBuffer(request_buffer)
                      THEN Garbage ELSE { NoGarbage }) :
          \E isolated \in { isolate_file_request(request_buffer, g) } :
          /\ file_request' = isolated
          /\ path_buffer' = RequestedFilePath(isolated)
          /\ oob' = ReadsOutsideBuffer(request_buffer)
          /\ pc' = "determine_response_code"
          /\ UNCHANGED released
     \/ \* the read outside the buffer faults
        /\ ReadsOutsideBuffer(request_buffer)
        /\ oob' = TRUE
        /\ pc' = "crashed"
        /\ UNCHANGED << file_request, path_buffer, released >>
     \/ \* strdup fails
        /\ pc' = "returned"
        /\ released' = server_cleanup(ssl, released)
        /\ path_buffer' = NULL
        /\ UNCHANGED << file_request, oob >>
  /\ UNCHANGED << startVars, files, fsChanges, req, request_buffer, response_code,
                  checks, probed, responseVars, ssl >>

\* process_request, second half: determine_response_code; the first or the
\* second allocation of handle_error_case may fail
DetermineResponseCode ==
  /\ pc = "determine_response_code"
  /\ \E r \in { determine_response_code(files, request_buffer, path_buffer) } :
         /\ response_code' = r.code
         /\ checks' = r.checks
         /\ \/ /\ path_buffer' = r.path
               /\ probed' = r.probed
               /\ pc' = "construct_header"
               /\ UNCHANGED released
            \/ /\ r.code # 200
               /\ \/ probed' = SubSeq(r.probed, 1, Len(r.probed) - 1)
                  \/ /\ ~file_exists(files, r.probed[Len(r.probed)])
                     /\ probed' = r.probed
               /\ path_buffer' = NULL
               /\ pc' = "returned"
               /\ released' = server_cleanup(ssl, released)
  /\ UNCHANGED << startVars, files, fsChanges, req, request_buffer, file_request, oob,
                  responseVars, ssl >>

\* what the uninitialized content_type buffer of construct_header may hold
\* str repeated 2^n times
RECURSIVE Doubled(_, _)
Doubled(str, n) ==
  IF n = 0 THEN str ELSE Doubled(str, n - 1) \o Doubled(str, n - 1)

\* empty, a line left by an earlier call, or 1000 or MAX_HEADER bytes of
\* the stack without a terminator among them
UninitContentType ==
  { "", "Content-Type: text/css\r\n\r\n", Prefix(Doubled("?", 10), 1000),
    Doubled("?", 10) }

\* get_content_type leaves content_type as it found it
ContentTypeUnwritten(path) ==
  /\ get_file_extension(path) # NULL
  /\ MimeIndex(path) < 0

\* handle_client: construct_header
ConstructHeader ==
  /\ pc = "construct_header"
  /\ \/ \E u \in (IF ContentTypeUnwritten(path_buffer)
                    THEN UninitContentType ELSE { "" }) :
          \E h \in { construct_header(response_code, path_buffer, u) } :
              /\ header' = h
              /\ IF h = NULL
                   THEN /\ pc' = "returned"
                        /\ released' = server_cleanup(ssl, released)
                   ELSE /\ pc' = "write_header"
                        /\ UNCHANGED released
     \/ \* the MIME table is indexed outside its bounds and the read faults
        /\ get_file_extension(path_buffer) # NULL
        /\ MimeIndex(path_buffer) = OUT_OF_TABLE
        /\ pc' = "crashed"
        /\ UNCHANGED << header, released >>
     \/ \* malloc(MAX_HEADER) fails
        /\ pc' = "returned"
        /\ released' = server_cleanup(ssl, released)
        /\ UNCHANGED header
  /\ UNCHANGED << startVars, close_notify, files, fsChanges, requestVars, response_file, file_size,
                  sent, ssl >>

\* write_to_client going on to the body after a failed write of the header
WriteHeader_IgnoreFailure ==
  /\ pc = "write_header"
  /\ \/ sent' = Append(sent, header)
     \/ UNCHANGED sent
  /\ pc' = "read_file"
  /\ UNCHANGED << startVars, close_notify, files, fsChanges, requestVars, header,
                  response_file, file_size, ssl, released >>

\* write_to_client: SSL_write of the header.  On failure free() is given
\* the address of handle_client's variable, not a heap block: the call
\* aborts the process or returns, and then server_cleanup runs in
\* write_to_client and again in handle_client
WriteHeader ==
  /\ pc = "write_header"
  /\ \/ /\ sent' = Append(sent, header)
        /\ pc' = "read_file"
        /\ UNCHANGED released
     \/ /\ pc' = "crashed"
        /\ UNCHANGED << sent, released >>
     \/ /\ pc' = "returned"
        /\ released' = server_cleanup(ssl, server_cleanup(ssl, released))
        /\ UNCHANGED sent
  /\ UNCHANGED << startVars, close_notify, files, fsChanges, requestVars, header, response_file,
                  file_size, ssl >>

\* the environment deletes the file about to be read, between the
\* resolver's existence check and read_file (changes before the check are
\* choices of Init, deletions of other files change nothing that follows)
FsDelete ==
  /\ pc = "read_file"
  /\ fsChanges < MaxFsChanges
  /\ \E target \in { Stat(files, path_buffer) } :
       /\ target \in files
       /\ files' = files \ { target }
  /\ fsChanges' = fsChanges + 1
  /\ UNCHANGED << startVars, pc, requestVars, responseVars, ssl, released >>

\* write_to_client reading the file the request names instead of the path
\* the resolver left in path_buffer
ReadFile_RequestedPath ==
  /\ pc = "read_file"
  /\ \E target \in { Stat(files, RequestedFilePath(file_request)) } :
       \/ /\ target \in files
          /\ response_file' = FileBytes(files, target)
          /\ file_size' = "set"
       \/ /\ target \notin files
          /\ response_file' = NULL
          /\ UNCHANGED file_size
  /\ pc' = "write_body"
  /\ UNCHANGED << startVars, close_notify, files, fsChanges, requestVars, header, sent, ssl,
                  released >>

\* write_to_client: read_file(*path_buffer, file_size).  A directory can
\* be opened but not read: the result is NULL, or an empty buffer when its
\* size is reported as 0, and file_size may or may not have been set
ReadFile ==
  /\ pc = "read_file"
  /\ \E target \in { Stat(files, path_buffer) } :
       \/ /\ target \in files
          /\ \/ response_file' = FileBytes(files, target)
             \/ response_file' = NULL
          /\ file_size' = "set"
       \/ /\ target \in Dirs
          /\ \E o \in { << NULL, "unset" >>, << NULL, "set" >>,
                        << "", "set" >> } :
               /\ response_file' = o[1]
               /\ file_size' = o[2]
       \/ /\ target = NOENT
          /\ response_file' = NULL
          /\ UNCHANGED file_size
  /\ pc' = "write_body"
  /\ UNCHANGED << startVars, close_notify, files, fsChanges, requestVars, header, sent, ssl,
                  released >>

\* write_to_client: SSL_write of the body.  With a NULL buffer the call
\* fails or faults; after a failure server_cleanup runs in write_to_client
\* and again in handle_client
WriteBody ==
  /\ pc = "write_body"
  /\ \/ /\ response_file # NULL
        /\ response_file # ""
        /\ sent' = Append(sent, response_file)
        /\ pc' = "shutdown"
        /\ UNCHANGED released
     \/ /\ response_file = NULL
        /\ pc' = "crashed"
        /\ UNCHANGED << sent, released >>
     \/ /\ pc' = "returned"
        /\ released' = server_cleanup(ssl, server_cleanup(ssl, released))
        /\ UNCHANGED sent
  /\ UNCHANGED << startVars, close_notify, files, fsChanges, requestVars, header, response_file,
                  file_size, ssl >>

\* handle_client returning when SSL_shutdown fails, as it does after the
\* other failures
Shutdown_EscalateFailure ==
  /\ pc = "shutdown"
  /\ \/ close_notify' = "sent" /\ pc' = "cleanup"
     \/ close_notify' = "failed" /\ pc' = "returned"
  /\ UNCHANGED << startVars, files, fsChanges, requestVars, header,
                  response_file, file_size, sent, ssl, released >>

\* handle_client: SSL_shutdown; a result below 0 is logged and nothing else
Shutdown ==
  /\ pc = "shutdown"
  /\ close_notify' \in { "sent", "failed" }
  /\ pc' = "cleanup"
  /\ UNCHANGED << startVars, files, fsChanges, requestVars, header,
                  response_file, file_size, sent, ssl, released >>

\* the end of handle_client: server_cleanup, close(clientfd)
Cleanup ==
  /\ pc = "cleanup"
  /\ pc' = "returned"
  /\ released' = [ server_cleanup(ssl, released) EXCEPT !.clientfd = @ + 1 ]
  /\ UNCHANGED << startVars, files, fsChanges, requestVars, responseVars, ssl >>

Next ==
  \/ Main
  \/ SetupSsl
  \/ ReadFromClient
  \/ AllocPathBuffer
  \/ GetRequestedFilePath
  \/ DetermineResponseCode
  \/ ConstructHeader
  \/ WriteHeader
  \/ FsDelete
  \/ ReadFile
  \/ WriteBody
  \/ Shutdown
  \/ Cleanup

Spec == Init /\ [][Next]_vars

TypeOK ==
  /\ pc \in { "main", "exited", "call", "server", "setup_ssl", "read_from_client", "alloc_path_buffer",
              "get_requested_file_path", "determine_response_code",
              "construct_header", "write_header", "read_file", "write_body",
              "shutdown", "cleanup", "returned", "crashed" }
  /\ response_code \in { 0, 200, 403, 404, 405 }
  /\ req \in Requests \cup { NoRequest }
(***************************************************************************)
(* Functions called on their own.  A call record names the function, its   *)
(* arguments (code, path), what it returned or left in its buffer (ret),   *)
(* the buffer before the latest call (prev), the number of calls made,     *)
(* whether the call faulted and whether an allocation in it failed.        *)
(***************************************************************************)
\* the strings of at most n characters of alphabet
RECURSIVE StringsOver(_, _)
StringsOver(alphabet, n) ==
  IF n = 0 THEN { "" }
  ELSE { str \o c : str \in StringsOver(alphabet, n - 1),
                    c \in alphabet \cup { "" } }

\* paths given to normalize_request_path
NormalizeInputs ==
  StringsOver({ "/", ".", "a" }, MaxPathLen) \cup { "/a//b///c/" }

\* the pieces paths given to contains_traversal_patterns are made of
TraversalPieces ==
  { "../", "..", "/", "\\", "%2e", "%2E", "%2f", "%5c", "%25", "%252e",
    "%255c", "a" }

\* paths given to contains_traversal_patterns
TraversalInputs == StringsOver(TraversalPieces, MaxPieces)

\* a call about to be made
NewCall(fn, code, path) ==
  [ fn |-> fn, code |-> code, path |-> path, ret |-> path, prev |-> path,
    calls |-> 0, fault |-> FALSE, nomem |-> FALSE, written |-> 0 ]

\* the extensions of the MIME table and some that are not in it: before
\* the first entry, after the last, between entries, empty, in upper case,
\* an entry with a character added
KnownExtensions ==
  { mime_type_associations[i].extension : i \in 1..NUM_OF_MIME_TYPES }

OtherExtensions == { "aaa", "bin", "txt", "zzz", "", "HTML", "htmlx", "gz" }

\* directories of the paths given to get_content_type: none, one without
\* and one with a '.' in a directory name
MimeDirs == { "", "/w/", "/h/.local/w/" }

\* paths given to get_content_type and construct_header
MimePaths ==
  { d \o "x." \o e : d \in MimeDirs, e \in KnownExtensions \cup OtherExtensions }
    \cup { d \o "x" : d \in MimeDirs }

\* status codes given to construct_header
StatusCodes == { 200, 403, 404, 405, 0, -1, 500 }

\* the length of the string snprintf(buf, size, ...) leaves in buf when
\* the formatted text has n bytes
SnprintfLen(size, n) == Min(n, size - 1)

\* the longest target isolate_file_request can return: a request of
\* BUFFER_SIZE - 1 bytes without a space after the method
MaxTargetLen == BUFFER_SIZE - 1 - METHOD_LENGTH

\* the target length with which the path and its terminator fill the
\* PATH_MAX bytes of path_buffer exactly
FittingTargetLen ==
  PATH_MAX - 1 - Len(prepend_program_data_path("website/"))

\* lengths of the isolated target given to get_requested_file_path: short
\* ones, the longest that fits, the first that does not, and the longest a
\* request can carry
TargetLengths ==
  { 0, 1, Len("index.html"), 255, FittingTargetLen - 1, FittingTargetLen,
    FittingTargetLen + 1, PATH_MAX, MaxTargetLen }

CallInputs ==
  { NewCall("normalize_request_path", 0, path) : path \in NormalizeInputs }
    \cup
  { NewCall("contains_traversal_patterns", 0, path) :
      path \in TraversalInputs }
    \cup
  { NewCall("get_content_type", 0, path) : path \in MimePaths }
    \cup
  { NewCall("construct_header", code, path) :
      code \in StatusCodes, path \in MimePaths }
    \cup
  { NewCall("get_requested_file_path", n, "") : n \in TargetLengths }
    \cup
  { NewCall("handle_error_case", 0, e) : e \in ErrorPages }

\* a C bool as a string
BoolStr(b) == IF b THEN "true" ELSE "false"

\* the handler is not running; one function is about to be called
CallInit ==
  /\ pc = "call"
  /\ website_dir = TRUE
  /\ call \in CallInputs
  /\ process = NoProcesses
  /\ at_interrupt = NotInterrupted
  /\ files = ContentFiles
  /\ fsChanges = 0
  /\ req = NoRequest
  /\ request_buffer = ""
  /\ file_request = NULL
  /\ oob = FALSE
  /\ path_buffer = NULL
  /\ response_code = 0
  /\ checks = << >>
  /\ probed = << >>
  /\ header = NULL
  /\ response_file = NULL
  /\ file_size = "unset"
  /\ sent = << >>
  /\ close_notify = "none"
  /\ ssl = NULL
  /\ released = [ ssl |-> 0, ssl_ctx |-> 0, sockfd |-> 0, clientfd |-> 0 ]

\* what a call leaves alone
handlerVars ==
  << process, at_interrupt, website_dir, pc, files, fsChanges, requestVars, responseVars, ssl,
     released >>

\* normalize_request_path(buf), on the buffer as the previous call left it
CallNormalize ==
  /\ call.fn = "normalize_request_path"
  /\ call.calls < 2
  /\ call' = [ call EXCEPT !.prev = call.ret,
                           !.ret = normalize_request_path(call.ret),
                           !.calls = @ + 1 ]
  /\ UNCHANGED handlerVars

\* contains_traversal_patterns(path)
CallContainsTraversal ==
  /\ call.fn = "contains_traversal_patterns"
  /\ call.calls = 0
  /\ call' = [ call EXCEPT
                 !.ret = BoolStr(contains_traversal_patterns(call.path)),
                 !.calls = 1 ]
  /\ UNCHANGED handlerVars

\* what content_type may hold before get_content_type(content_type, path)
ContentTypeBefore(path) ==
  IF ContentTypeUnwritten(path) THEN UninitContentType ELSE { "" }

\* the search of get_content_type indexes the table outside its bounds
IndexesOutsideTable(path) ==
  /\ get_file_extension(path) # NULL
  /\ MimeIndex(path) = OUT_OF_TABLE

\* get_content_type(content_type, path): ret is content_type afterwards
CallGetContentType ==
  /\ call.fn = "get_content_type"
  /\ call.calls = 0
  /\ \/ \E u \in ContentTypeBefore(call.path) :
          call' = [ call EXCEPT !.ret = get_content_type(call.path, u),
                                !.calls = 1 ]
     \/ /\ IndexesOutsideTable(call.path)
        /\ call' = [ call EXCEPT !.ret = NULL, !.calls = 1, !.fault = TRUE ]
  /\ UNCHANGED handlerVars

\* construct_header(code, path): ret is the header returned, or NULL
CallConstructHeader ==
  /\ call.fn = "construct_header"
  /\ call.calls = 0
  /\ \/ \E u \in (IF get_response_code_msg(call.code) = NULL THEN { "" }
                   ELSE ContentTypeBefore(call.path)) :
          call' = [ call EXCEPT
                      !.ret = construct_header(call.code, call.path, u),
                      !.calls = 1 ]
     \/ /\ get_response_code_msg(call.code) # NULL
        /\ IndexesOutsideTable(call.path)
        /\ call' = [ call EXCEPT !.ret = NULL, !.calls = 1, !.fault = TRUE ]
     \/ \* malloc(MAX_HEADER) fails
        call' = [ call EXCEPT !.ret = NULL, !.calls = 1, !.nomem = TRUE ]
  /\ UNCHANGED handlerVars

\* the bytes strcat(buf, src) has written to buf, terminator included,
\* when buf held dst_len bytes before the terminator and src has src_len
StrcatExtent(dst_len, src_len) == dst_len + src_len + 1

\* get_requested_file_path: snprintf of the prefix by
\* prepend_program_data_path, then strcat of a target of target_len bytes
PathExtent(target_len) ==
  StrcatExtent(SnprintfLen(PATH_MAX,
                           Len(prepend_program_data_path("website/"))),
               target_len)

\* get_requested_file_path(&path_buffer, request) for an isolated target of
\* call.code bytes (8, the length of 404.html, when isolate_file_request
\* returned NULL): written is how many bytes of path_buffer were written,
\* fault that the write went past its PATH_MAX bytes
CallGetRequestedFilePath ==
  /\ call.fn = "get_requested_file_path"
  /\ call.calls = 0
  /\ \/ call' = [ call EXCEPT !.written = PathExtent(call.code),
                              !.fault = PathExtent(call.code) > PATH_MAX,
                              !.calls = 1 ]
     \/ \* strdup fails
        call' = [ call EXCEPT !.calls = 1, !.nomem = TRUE ]
  /\ UNCHANGED handlerVars

\* handle_error_case(&file_request, error_page): snprintf of the prefix
\* into a new PATH_MAX buffer, then strcat of the error page name
CallHandleErrorCase ==
  /\ call.fn = "handle_error_case"
  /\ call.calls = 0
  /\ \/ \E n \in { StrcatExtent(
                      SnprintfLen(PATH_MAX,
                                  Len(prepend_program_data_path("website/"))),
                      Len(call.path)) } :
          call' = [ call EXCEPT !.written = n, !.fault = n > PATH_MAX,
                                !.ret = handle_error_case(files, call.path).path,
                                !.calls = 1 ]
     \/ \* malloc(PATH_MAX) fails
        call' = [ call EXCEPT !.ret = NULL, !.calls = 1, !.nomem = TRUE ]
  /\ UNCHANGED handlerVars

CallNext ==
  \/ CallNormalize
  \/ CallContainsTraversal
  \/ CallGetContentType
  \/ CallConstructHeader
  \/ CallGetRequestedFilePath
  \/ CallHandleErrorCase

CallSpec == CallInit /\ [][CallNext]_vars


(***************************************************************************)
(* The listening process: server_init and client_loop (server.c), the     *)
(* children it forks, and the SIGINT handler (signals.c).  The call of     *)
(* handle_client in a child is one step here.                              *)
(***************************************************************************)
\* the handler of the single-connection model is not running; the listening
\* process has run server_ctx_init and is about to call server_init
ServerInit ==
  /\ process = [ NoProcesses EXCEPT ![LISTENER] = server_ctx_init ]
  /\ at_interrupt = NotInterrupted
  /\ pc = "server"
  /\ website_dir = TRUE
  /\ call = NoCall
  /\ files = ContentFiles
  /\ fsChanges = 0
  /\ req = NoRequest
  /\ request_buffer = ""
  /\ file_request = NULL
  /\ oob = FALSE
  /\ path_buffer = NULL
  /\ response_code = 0
  /\ checks = << >>
  /\ probed = << >>
  /\ header = NULL
  /\ response_file = NULL
  /\ file_size = "unset"
  /\ sent = << >>
  /\ close_notify = "none"
  /\ ssl = NULL
  /\ released = [ ssl |-> 0, ssl_ctx |-> 0, sockfd |-> 0, clientfd |-> 0 ]

\* what a step of a process leaves alone, at_interrupt apart
singleVars ==
  << website_dir, call, pc, files, fsChanges, requestVars, responseVars,
     ssl, released >>

\* a step of startup: the listening process at step goes on as record next
Startup(step, next) ==
  /\ process[LISTENER].pc = step
  /\ process' = [ process EXCEPT ![LISTENER] = next ]
  /\ UNCHANGED << at_interrupt, singleVars >>

\* server_init: OPENSSL_init_ssl
OpensslInit ==
  \E p \in { process[LISTENER] } :
    \/ Startup("OPENSSL_init_ssl", [ p EXCEPT !.pc = "SSL_CTX_new" ])
    \/ Startup("OPENSSL_init_ssl", ReturnFailed(p, "OPENSSL_init_ssl"))

\* init_ssl_ctx: SSL_CTX_new
SslCtxNew ==
  \E p \in { process[LISTENER] } :
    \/ Startup("SSL_CTX_new",
               [ p EXCEPT !.ssl_ctx = CTX, !.live = @ \cup { CTX },
                          !.created = @ + 1,
                          !.pc = "SSL_CTX_use_certificate_chain_file" ])
    \/ Startup("SSL_CTX_new", ReturnFailed(p, "SSL_CTX_new"))

\* init_ssl_ctx: SSL_CTX_use_certificate_chain_file; on failure
\* server_cleanup, and -1 is returned by init_ssl_ctx and by server_init
UseCertificate ==
  \E p \in { process[LISTENER] } :
    \/ Startup("SSL_CTX_use_certificate_chain_file",
               [ p EXCEPT !.pc = "SSL_CTX_use_PrivateKey_file" ])
    \/ Startup("SSL_CTX_use_certificate_chain_file",
               ReturnFailed(ServerCleanup(p),
                            "SSL_CTX_use_certificate_chain_file"))

\* init_ssl_ctx: SSL_CTX_use_PrivateKey_file; on failure as above
UsePrivateKey ==
  \E p \in { process[LISTENER] } :
    \/ Startup("SSL_CTX_use_PrivateKey_file", [ p EXCEPT !.pc = "socket" ])
    \/ Startup("SSL_CTX_use_PrivateKey_file",
               ReturnFailed(ServerCleanup(p), "SSL_CTX_use_PrivateKey_file"))

\* init_socket: socket(); its result, -1 on failure, is stored in
\* server.sockfd
Socket ==
  \E p \in { process[LISTENER] } :
    \/ Startup("socket",
               [ p EXCEPT !.sockfd = LISTEN_FD, !.open = @ \cup { LISTEN_FD },
                          !.pc = "bind" ])
    \/ Startup("socket", ReturnFailed([ p EXCEPT !.sockfd = -1 ], "socket"))

\* init_socket: bind()
Bind ==
  \E p \in { process[LISTENER] } :
    \/ Startup("bind", [ p EXCEPT !.pc = "listen" ])
    \/ Startup("bind", ReturnFailed(p, "bind"))

\* init_socket ignoring the result of listen()
Listen_IgnoreFailure ==
  \E p \in { process[LISTENER] } :
    \/ Startup("listen", [ p EXCEPT !.pc = "accept" ])
    \/ Startup("listen", [ p EXCEPT !.pc = "accept", !.failed = "listen" ])

\* init_socket: listen(); then server_init enters the accept loop
Listen ==
  \E p \in { process[LISTENER] } :
    \/ Startup("listen", [ p EXCEPT !.pc = "accept" ])
    \/ Startup("listen", ReturnFailed(p, "listen"))

\* the children whose handler met an unrecoverable error
FailedChildren ==
  { i \in Children : process[i].failed # "" \/ process[i].pc = "crashed" }

\* client_loop: accept().  On failure client_loop returns -1 and server_init
\* leaves the loop, closes the socket and returns 0
Accept ==
  \E p \in { process[LISTENER] } :
    \/ /\ p.accepts < MaxConnections
       /\ Startup("accept",
                  [ p EXCEPT !.accepts = @ + 1,
                             !.open = @ \cup { ClientFd(p.accepts + 1) },
                             !.after_failures = Cardinality(FailedChildren),
                             !.pc = "fork" ])
    \/ Startup("accept", LeaveLoop([ p EXCEPT !.accepts = @ + 1 ], -1))

\* client_loop without fork(): the listening process runs handle_client
\* itself
Fork_HandleInParent ==
  \E p \in { process[LISTENER] } :
    Startup("fork", [ p EXCEPT !.pc = "child" ])

\* client_loop: fork().  The child is a copy of the parent; the parent
\* closes the accepted socket and client_loop returns 1.  On failure the
\* accepted socket is closed, client_loop returns -1 and server_init leaves
\* the loop
Fork ==
  \E p \in { process[LISTENER] } :
    \/ /\ process[LISTENER].pc = "fork"
       /\ process' =
            [ process EXCEPT
                ![LISTENER] = [ Close(p, ClientFd(p.accepts))
                                  EXCEPT !.pc = "accept" ],
                ![p.accepts] = [ p EXCEPT !.pc = "child", !.after_failures = 0 ] ]
       /\ UNCHANGED << at_interrupt, singleVars >>
    \/ Startup("fork", LeaveLoop(Close(p, ClientFd(p.accepts)), -1))

\* a handler that runs in the listening process's memory: its cleanup
\* works on the context of the listening process
ChildStep_SharedContext(i, step, next) ==
  /\ process[i].pc = step
  /\ process' = [ process EXCEPT
                    ![i] = next,
                    ![LISTENER] = IF next.misuse # process[i].misuse
                                    \/ next.live # process[i].live
                                  THEN ServerCleanup(@) ELSE @ ]
  /\ UNCHANGED << at_interrupt, singleVars >>

\* a step of child i from position step to record next
ChildStep(i, step, next) ==
  /\ process[i].pc = step
  /\ process' = [ process EXCEPT ![i] = next ]
  /\ UNCHANGED << at_interrupt, singleVars >>

\* handle_client failed in child c after its cleanup: it returns to
\* client_loop, or the process is aborted by a free of freed memory
HandlerFailed(i, c) ==
  \E after \in PcAfter(c, "handled") :
    ChildStep(i, "child",
              IF after = "crashed" THEN Ended(c, "crashed")
              ELSE [ c EXCEPT !.pc = "handled", !.failed = "handle_client" ])

\* child c with the session setup_ssl made by SSL_new
WithSession(c) == [ c EXCEPT !.ssl = SESSION, !.live = @ \cup { SESSION } ]

\* client_loop in the child: close(server.sockfd), then handle_client.
\* handle_client ends in one of these ways: SSL_new fails and setup_ssl
\* calls server_cleanup; a later step fails and server_cleanup is called
\* once; the write fails and server_cleanup is called in write_to_client
\* and again in handle_client; a fault kills the process; or the response
\* is sent, followed by SSL_shutdown, server_cleanup and close(clientfd)
ChildHandleClient(i) ==
  /\ process[i].pc = "child"
  /\ \E c \in { Close(process[i], process[i].sockfd) } :
       \/ HandlerFailed(i, ServerCleanup(c))
       \/ HandlerFailed(i, ServerCleanup(WithSession(c)))
       \/ HandlerFailed(i, ServerCleanup(ServerCleanup(WithSession(c))))
       \/ ChildStep(i, "child", Ended(WithSession(c), "crashed"))
       \/ ChildStep(i, "child",
                    [ Close(ServerCleanup(WithSession(c)), ClientFd(i))
                        EXCEPT !.pc = "handled" ])

\* client_loop falling through to return 1 in the child: the child goes
\* round the accept loop
ChildReturn_KeepServing(i) ==
  \E c \in { process[i] } :
    ChildStep(i, "handled", [ c EXCEPT !.pc = "accept" ])

\* the child back in client_loop, which returns 0: server_init leaves the
\* loop, calls close(server.sockfd) and returns 0
ChildReturn(i) ==
  \E c \in { process[i] } : ChildStep(i, "handled", LeaveLoop(c, 0))

\* a process that can still receive a signal
Running(i) == process[i].pc \notin { "none", "exited", "crashed", "reaped" }

\* a handler that returns instead of calling exit
Sigint_NoExit(i) ==
  /\ Running(i)
  /\ process[i].interrupts = 0
  /\ process' = [ process EXCEPT
                    ![i] = [ ServerCleanup(process[i])
                               EXCEPT !.interrupts = @ + 1 ] ]
  /\ at_interrupt' = IF i = LISTENER
                       THEN [ j \in Children |-> process[j].pc ]
                       ELSE at_interrupt
  /\ UNCHANGED singleVars

\* SIGINT delivered to process i, a child inherits the handler: handler
\* runs config_cleanup and server_cleanup and calls exit
Sigint(i) ==
  /\ Running(i)
  /\ \E c \in { ServerCleanup(process[i]) } :
       \E after \in PcAfter(c, "exited") :
         process' = [ process EXCEPT
                        ![i] = [ Ended(c, after) EXCEPT !.interrupts = @ + 1 ] ]
  /\ at_interrupt' = IF i = LISTENER
                       THEN [ j \in Children |-> process[j].pc ]
                       ELSE at_interrupt
  /\ UNCHANGED singleVars

\* main returns what server_init returned and the process ends
MainReturn(i) ==
  /\ process[i].pc = "returned"
  /\ process' = [ process EXCEPT ![i] = Ended(@, "exited") ]
  /\ UNCHANGED << at_interrupt, singleVars >>

\* the positions of a process that has ended
EndedSteps == { "exited", "crashed" }

\* a child that has ended and whose entry the kernel still keeps for the
\* parent to collect
Zombie(i) == i \in Children /\ process[i].pc \in EndedSteps

\* the kernel removes an ended child: client_loop and server_init never
\* wait for a child and SIGCHLD keeps its default action, so an ended child
\* is collected only once the listening process has ended and the child
\* has been handed over to init; nothing of the child is left
Reap(i) ==
  /\ Zombie(i)
  /\ process[LISTENER].pc \in EndedSteps
  /\ process' = [ process EXCEPT ![i] = [ NoProcess EXCEPT !.pc = "reaped" ] ]
  /\ UNCHANGED << at_interrupt, singleVars >>

ServerNext ==
  \/ OpensslInit
  \/ SslCtxNew
  \/ UseCertificate
  \/ UsePrivateKey
  \/ Socket
  \/ Bind
  \/ Listen
  \/ Accept
  \/ Fork
  \/ \E i \in Children : ChildHandleClient(i)
  \/ \E i \in Children : ChildReturn(i)
  \/ \E i \in Processes : Sigint(i)
  \/ \E i \in Processes : MainReturn(i)
  \/ \E i \in Children : Reap(i)

ServerSpec == ServerInit /\ [][ServerNext]_vars

\* the steps a process takes on its own once it is scheduled: all but
\* accept(), which waits for a client, and the delivery of SIGINT
Scheduled ==
  \/ OpensslInit
  \/ SslCtxNew
  \/ UseCertificate
  \/ UsePrivateKey
  \/ Socket
  \/ Bind
  \/ Listen
  \/ Fork
  \/ \E i \in Children : ChildHandleClient(i)
  \/ \E i \in Children : ChildReturn(i)
  \/ \E i \in Processes : MainReturn(i)
  \/ \E i \in Children : Reap(i)

\* the server under a fair scheduler
FairServerSpec == ServerSpec /\ WF_vars(Scheduled)

(***************************************************************************)
(* Properties of the response resolver.  The resolver has returned a      *)
(* status for the request when the handler is about to build the header.  *)
(***************************************************************************)
Resolved == pc = "construct_header"

\* a request line with the method token GET or HEAD followed by a space
GetOrHead == req.token \in { "GET", "HEAD" } /\ req.sep = " "

ErrorStatuses == { 403, 404, 405 }

\* the error page of an error status
ErrorPageOf(code) ==
  IF code = 403 THEN "403.html"
  ELSE IF code = 404 THEN "404.html"
  ELSE "405.html"

\* C1: every GET or HEAD request whose requested path contains one of the
\* ten traversal literals, at any position, resolves to status 403.
C1_TraversalYields403 ==
  (Resolved /\ GetOrHead /\ contains_traversal_patterns(req.target))
    => response_code = 403

\* C2: no request whose requested path contains one of the ten traversal
\* literals resolves to status 200, whatever its method and whatever files
\* exist.
C2_TraversalNever200 ==
  (Resolved /\ req.sep = " " /\ contains_traversal_patterns(req.target))
    => response_code # 200

\* path has a segment equal to ".."
HasDotDotSegment(path) == strstr(path \o "/", "/../")

\* path is the website root followed by segments none of which is ".."
BeneathWebsiteRoot(path) ==
  /\ Prefix(path, Len(WebsiteRoot) + 1) = WebsiteRoot \o "/"
  /\ ~HasDotDotSegment(path)

\* C3: whenever a request resolves to status 200, the resolved path denotes
\* a location beneath the website root: it begins with the website-root
\* prefix and has no ".." segment.
C3_Status200BeneathRoot ==
  (Resolved /\ response_code = 200) => BeneathWebsiteRoot(path_buffer)

\* the requested path names a regular file at <website root><target>
NamesExistingFile(target) == Stat(files, WebsiteRoot \o target) \in files

\* C4: every GET or HEAD request whose path contains no traversal literal
\* and names a file that exists under the website root resolves to status
\* 200 with the target path <website root><normalized requested path>.
C4_ExistingFileYields200 ==
  (Resolved /\ GetOrHead /\ ~contains_traversal_patterns(req.target)
     /\ NamesExistingFile(req.target))
    => /\ response_code = 200
       /\ path_buffer = WebsiteRoot \o normalize_request_path(req.target)

\* C4 witness: a HEAD request for an existing file, with a doubled slash in
\* its target, has been resolved.
C4_Witness ==
  /\ Resolved
  /\ req.token = "HEAD"
  /\ req.target = "/a//b.html"
  /\ response_code = 200
  /\ path_buffer = WebsiteRoot \o "/a/b.html"

\* C5 as stated: every request whose method token is anything other than
\* exactly GET or HEAD resolves to status 405.
C5_OtherTokenYields405 ==
  (Resolved /\ req.token \notin { "GET", "HEAD" }) => response_code = 405

\* the method token begins with the bytes GET or HEAD
TokenStartsWithMethod ==
  Prefix(req.token, 3) = "GET" \/ Prefix(req.token, 4) = "HEAD"

\* C5 amended: every request whose method token does not begin with the
\* bytes GET or HEAD resolves to status 405, whatever its path.
C5_NoMethodPrefixYields405 ==
  (Resolved /\ ~TokenStartsWithMethod) => response_code = 405

\* C5 witness: a POST request whose path holds a traversal literal has been
\* resolved to 405.
C5_Witness ==
  /\ Resolved
  /\ req.token = "POST"
  /\ req.target = "/../b.html"
  /\ response_code = 405

\* the status the decision order prescribes, given whether the method is
\* supported and the normalized path
StatusInOrder(supported, normalized) ==
  IF ~supported THEN 405
  ELSE IF contains_traversal_patterns(normalized) THEN 403
  ELSE IF ~file_exists(files, normalized) THEN 404
  ELSE 200

\* the checks that have run when the decision stops with a status
ChecksFor(code) ==
  IF code = 405 THEN << "method" >>
  ELSE IF code = 403 THEN << "method", "normalize", "traversal" >>
  ELSE << "method", "normalize", "traversal", "exists" >>

\* C6: the status is that of the first failing check in the order method,
\* traversal (on the normalized path), existence; normalization runs before
\* traversal detection and neither runs for an unsupported method.
C6_DecisionOrder ==
  Resolved =>
    /\ response_code =
         StatusInOrder(get_method(request_buffer) # NULL,
                       normalize_request_path(RequestedFilePath(file_request)))
    /\ checks = ChecksFor(response_code)

\* C6 witness: a request with an unsupported method whose path holds a
\* traversal literal and names no file has been resolved: all three checks
\* would fail and the first decides.
C6_Witness ==
  /\ Resolved
  /\ req.token = "DELETE"
  /\ req.target = "/../b.html"
  /\ response_code = 405
  /\ checks = << "method" >>

\* C7: every GET or HEAD request whose target ends in '/' is malformed
\* (isolate_file_request yields NULL) and resolves to status 404 with the
\* 404 error page as target, whatever files exist.
C7_TrailingSlashYields404 ==
  (Resolved /\ GetOrHead /\ req.target # ""
     /\ CharAt(req.target, Len(req.target)) = "/")
    => /\ file_request = NULL
       /\ response_code = 404
       /\ path_buffer \in { CustomErrorPath("404.html"),
                            fallback_website_path \o "/404.html" }

\* C8: every truncated request resolves to an error status, and
\* isolate_file_request reads no byte outside the captured request.
C8_TruncatedHandledInBounds ==
  /\ ~oob
  /\ (Resolved /\ req \in TruncatedRequests)
       => response_code \in ErrorStatuses

\* C9: for each error status with error page F the resolved target is
\* <website root>/F when that file exists and /etc/cyllenian/website/F
\* otherwise; only the custom page is probed, after the requested file.
C9_ErrorPageResolution ==
  (Resolved /\ response_code \in ErrorStatuses) =>
    /\ path_buffer =
         IF file_exists(files, WebsiteRoot \o "/" \o ErrorPageOf(response_code))
           THEN WebsiteRoot \o "/" \o ErrorPageOf(response_code)
           ELSE "/etc/cyllenian/website/" \o ErrorPageOf(response_code)
    /\ probed[Len(probed)] = WebsiteRoot \o "/" \o ErrorPageOf(response_code)
    /\ \A i \in 1..Len(probed) :
         probed[i] # "/etc/cyllenian/website/" \o ErrorPageOf(response_code)

\* C9 witness: a traversal attempt has been resolved to the fallback 403
\* page because the custom page, probed first, is absent.
C9_Witness ==
  /\ Resolved
  /\ response_code = 403
  /\ (WebsiteRoot \o "/403.html") \notin files
  /\ probed = << WebsiteRoot \o "/403.html" >>
  /\ path_buffer = "/etc/cyllenian/website/403.html"

\* C10: whenever the transmission step (read_file of the resolved path) is
\* about to run, the resolved path exists on disk.
C10_TargetExistsAtTransmission ==
  pc = "read_file" => file_exists(files, path_buffer)

(***************************************************************************)
(* Startup checks.                                                         *)
(***************************************************************************)
\* C11: a missing website root or a missing fallback error page is caught
\* at startup: whenever the handling of an accepted connection begins, the
\* website root and the three fallback error pages exist.
C11_MisconfigurationCaughtAtStartup ==
  pc = "setup_ssl" =>
    /\ website_dir
    /\ FallbackErrorFiles \subseteq files

(***************************************************************************)
(* Properties of the path security validator, called on its own.          *)
(***************************************************************************)
\* normalize_request_path has been called n times on the path
Normalized(n) == call.fn = "normalize_request_path" /\ call.calls = n

\* C12: normalize_request_path is idempotent: a second call leaves the
\* result of the first call as it is.
C12_NormalizeIdempotent == Normalized(2) => call.ret = call.prev

\* C12 witness: a path with two runs of '/' has been normalized twice.
C12_Witness ==
  /\ Normalized(2)
  /\ call.path = "//a//"
  /\ call.prev = "/a"
  /\ call.ret = "/a"

\* p with every run of '/' replaced by one '/', a pair at a time
RECURSIVE CollapseRuns(_)
CollapseRuns(p) ==
  IF ~strstr(p, "//") THEN p
  ELSE CollapseRuns(
         SubSeq(p, 1, CHOOSE i \in 1..Len(p) : SubSeq(p, i, i + 1) = "//")
           \o Suffix(p, 2 + CHOOSE i \in 1..Len(p) :
                              SubSeq(p, i, i + 1) = "//"))

\* p without its last character when that is a '/'
WithoutOneTrailingSlash(p) ==
  IF CharAt(p, Len(p)) = "/" THEN SubSeq(p, 1, Len(p) - 1) ELSE p

\* C13: the result of normalize_request_path has no two adjacent '/', is
\* the collapsed path with exactly one trailing '/' removed, and never ends
\* in '/'; "/a//b///c/" becomes "/a/b/c".
C13_NoSlashRunsNoTrailingSlash ==
  Normalized(1) =>
    /\ ~strstr(call.ret, "//")
    /\ CharAt(call.ret, Len(call.ret)) # "/"
    /\ call.ret = WithoutOneTrailingSlash(CollapseRuns(call.path))
    /\ call.path = "/a//b///c/" => call.ret = "/a/b/c"

\* C13 witness: the path of the example has been normalized.
C13_Witness ==
  /\ Normalized(1)
  /\ call.path = "/a//b///c/"
  /\ call.ret = "/a/b/c"

\* r is p from position i on with some '/' characters removed, r read
\* from position j on
RECURSIVE OnlySlashesDeleted(_, _, _, _)
OnlySlashesDeleted(p, r, i, j) ==
  IF i > Len(p) THEN j > Len(r)
  ELSE \/ /\ CharAt(p, i) = "/"
          /\ OnlySlashesDeleted(p, r, i + 1, j)
       \/ /\ j <= Len(r)
          /\ CharAt(p, i) = CharAt(r, j)
          /\ OnlySlashesDeleted(p, r, i + 1, j + 1)

\* C14: normalize_request_path only deletes '/' characters: every other
\* character, the dots of ".." included, is kept in order, and the result
\* is never longer than the path.
C14_OnlySlashesDeleted ==
  Normalized(1) =>
    /\ OnlySlashesDeleted(call.path, call.ret, 1, 1)
    /\ Len(call.ret) <= Len(call.path)

\* C14 witness: a path with a ".." segment between runs of '/' has been
\* normalized and the segment is still there.
C14_Witness ==
  /\ Normalized(1)
  /\ call.path = "//../"
  /\ call.ret = "/.."

\* the ten patterns as the specification lists them
ListedLiterals ==
  { "../", "%2e%2e%2f", "%2e%2e/", "..%2f", "%2e%2e%5c", "%2e%2e\\",
    "..%5c", "%252e%252e%255c", "..%255c", "..\\" }

\* p has a substring equal to one of the listed literals
HasListedLiteral(p) ==
  \E i \in 1..Len(p) : \E j \in i..Len(p) : SubSeq(p, i, j) \in ListedLiterals

\* C15: contains_traversal_patterns(p) is true exactly when p has one of
\* the ten listed literals as a case-sensitive substring; nothing is
\* decoded, so the mixed-case %2E%2e%2f is not detected.
C15_LiteralSubstringMatch ==
  (call.fn = "contains_traversal_patterns" /\ call.calls = 1) =>
    /\ call.ret = BoolStr(HasListedLiteral(call.path))
    /\ call.path = "%2E%2e%2f" => call.ret = "false"

\* C15 witness: a path with a double-encoded literal after its first
\* character has been checked and the literal was found.
C15_Witness ==
  /\ call.fn = "contains_traversal_patterns"
  /\ call.calls = 1
  /\ call.path = "a..%255c"
  /\ call.ret = "true"

(***************************************************************************)
(* Properties of the header builder, called on its own.                   *)
(***************************************************************************)
\* the content types of the known extensions
DocumentedTypes ==
  [ css |-> "text/css", gif |-> "image/gif", htm |-> "text/html",
    html |-> "text/html", jpeg |-> "image/jpeg", jpg |-> "image/jpeg",
    js |-> "text/javascript", json |-> "application/json",
    mp3 |-> "audio/mpeg", mp4 |-> "video/mp4", png |-> "image/png",
    svg |-> "image/svg+xml", ttf |-> "font/ttf", xml |-> "application/xml" ]

\* what follows the last '.' of path, NULL when path has no '.'
ExtensionOf(path) ==
  IF \E i \in 1..Len(path) : CharAt(path, i) = "."
    THEN Suffix(path, 1 + CHOOSE i \in 1..Len(path) :
                             /\ CharAt(path, i) = "."
                             /\ \A j \in (i + 1)..Len(path) :
                                   CharAt(path, j) # ".")
    ELSE NULL

\* the content type the specification gives a path
TypeOf(path) ==
  IF ExtensionOf(path) \in DOMAIN DocumentedTypes
    THEN DocumentedTypes[ExtensionOf(path)]
    ELSE "application/octet-stream"

\* C16: the content-type lookup is correct and total: a known extension
\* gives its documented type, an unknown or absent extension gives
\* application/octet-stream, and a Content-Type line is written for every
\* path.
C16_ContentTypeTotal ==
  (call.fn = "get_content_type" /\ call.calls = 1) =>
    /\ ~call.fault
    /\ call.ret = "Content-Type: " \o TypeOf(call.path) \o "\r\n\r\n"

\* the status lines of the four supported codes
StatusLines ==
  [ code \in { 200, 403, 404, 405 } |->
      IF code = 200 THEN "HTTP/1.1 200 OK"
      ELSE IF code = 403 THEN "HTTP/1.1 403 Forbidden"
      ELSE IF code = 404 THEN "HTTP/1.1 404 Not Found"
      ELSE "HTTP/1.1 405 Method Not Allowed" ]

\* content types a header may name
HeaderTypes ==
  { DocumentedTypes[e] : e \in DOMAIN DocumentedTypes }
    \cup { "application/octet-stream", "text/plain" }

\* construct_header has returned from a call in which malloc succeeded
HeaderBuilt ==
  call.fn = "construct_header" /\ call.calls = 1 /\ ~call.nomem

\* C17: for each of the four status codes and every path the header is
\* the status line, the Server line and a Content-Type line, each ended by
\* CRLF, then the blank line, and nothing else.
C17_HeaderFormat ==
  (HeaderBuilt /\ call.code \in DOMAIN StatusLines) =>
    /\ ~call.fault
    /\ \E type \in HeaderTypes :
         call.ret = StatusLines[call.code] \o "\r\n"
                      \o "Server: Cyllenian" \o "\r\n"
                      \o "Content-Type: " \o type \o "\r\n" \o "\r\n"

\* C18: a header returned by construct_header fits, with its terminator,
\* in MAX_HEADER bytes; a header that would not fit is not returned.
C18_HeaderWithinBuffer ==
  HeaderBuilt =>
    \/ call.ret = NULL
    \/ Len(call.ret) + 1 <= MAX_HEADER

\* C19: for every status code other than 200, 403, 404 and 405, 0
\* included, construct_header returns NULL.
C19_UnsupportedCodeRejected ==
  (HeaderBuilt /\ call.code \notin { 200, 403, 404, 405 }) =>
    call.ret = NULL

(***************************************************************************)
(* Properties of the connection handler.                                   *)
(***************************************************************************)
\* C20: when handle_client has returned, on whatever path, the TLS session
\* (if one was created) has been freed exactly once and the accepted socket
\* has been closed exactly once.
C20_SessionAndSocketReleasedOnce ==
  pc = "returned" =>
    /\ released.ssl = (IF ssl # NULL THEN 1 ELSE 0)
    /\ released.clientfd = 1

\* the connection handler has stopped: handle_client returned or the
\* process was killed
Closed == pc \in { "returned", "crashed" }

\* the request and everything derived from it or sent in answer to it
exchangeVars == << requestVars, responseVars >>

StepOrder ==
  << "setup_ssl", "read_from_client", "alloc_path_buffer",
     "get_requested_file_path", "determine_response_code",
     "construct_header", "write_header", "read_file", "write_body",
     "shutdown", "cleanup", "returned" >>

\* the step that follows step p when p succeeds
StepAfter(p) ==
  StepOrder[1 + CHOOSE i \in 1..(Len(StepOrder) - 1) : StepOrder[i] = p]

\* one step of the handler: it stays at a step, goes on to the next one,
\* or stops; the request is read once, at the read step; bytes are sent
\* only by a write step that succeeds; a closed connection does nothing
StepInOrder ==
  /\ pc \notin { "main", "call" } =>
       /\ ~Closed
       /\ pc' \in { pc, StepAfter(pc), "returned", "crashed" }
  /\ req' # req => (pc = "read_from_client" /\ req = NoRequest)
  /\ sent' # sent =>
       /\ pc \in { "write_header", "write_body" }
       /\ pc' = StepAfter(pc)

\* what has been sent is the header, then the body
SentInOrder ==
  \/ sent = << >>
  \/ sent = << header >>
  \/ sent = << header, response_file >>

\* C22: the steps of one connection run strictly in sequence, each only
\* after the success of the one before: one request read, no body byte
\* without a successful header write, nothing read or written once Closed.
C22_StepsStrictlySequential == []SentInOrder /\ [][StepInOrder]_vars

\* C22 witness: a connection went through every step: header and body
\* were sent and the handler returned through the teardown.
C22_Witness ==
  /\ pc = "returned"
  /\ req # NoRequest
  /\ sent = << header, response_file >>
  /\ released.clientfd = 1

\* h ends with the blank line and has a Content-Type line before it
WellFormedHeader(h) ==
  /\ h # NULL
  /\ Len(h) >= 4
  /\ Suffix(h, Len(h) - 3) = "\r\n\r\n"
  /\ strstr(h, "\r\nContent-Type: ")

\* C23: whenever the handshake, the read and both writes succeed, the
\* client has received a header ended by a blank line, followed by exactly
\* the bytes of the resolved target file.
C23_CompleteResponse ==
  Len(sent) = 2 =>
    /\ WellFormedHeader(sent[1])
    /\ sent[2] = "bytes of " \o Stat(files, path_buffer)

\* file_exists found the resolved path when the resolver checked it
FoundByFileExists ==
  /\ probed # << >>
  /\ probed[Len(probed)] = path_buffer

\* C24: when the resolved file existed at the check of file_exists but
\* read_file could not open or read it, SSL_write is not given a null
\* buffer or an unset length.
C24_UnreadableFileHandled ==
  (pc = "write_body" /\ FoundByFileExists) =>
    (response_file # NULL /\ file_size = "set")

(***************************************************************************)
(* Properties of the listening process and its children (ServerSpec).      *)
(***************************************************************************)
\* the steps of server_init before the accept loop
StartupSteps ==
  { "OPENSSL_init_ssl", "SSL_CTX_new", "SSL_CTX_use_certificate_chain_file",
    "SSL_CTX_use_PrivateKey_file", "socket", "bind", "listen" }

\* the positions of the listening process inside the accept loop
LoopSteps == { "accept", "fork" }

\* the listening process got through startup and neither an interrupt nor
\* a failure of its own accept() or fork() has stopped it
NotStopped ==
  /\ process[LISTENER].pc \notin StartupSteps
  /\ process[LISTENER].failed = ""
  /\ process[LISTENER].interrupts = 0
  /\ process[LISTENER].serving_clients = 1

\* a child that exists takes a step
ChildSteps ==
  \E i \in Children : process[i].pc # "none" /\ process'[i] # process[i]

\* C25: an unrecoverable error in a connection handler aborts only that
\* connection: no step of a child changes the listening process, which stays
\* in the accept loop, its socket open, until an interrupt or a failure of
\* its own accept() or fork() stops it.
C25_HandlerFailureAbortsOnlyConnection ==
  /\ [](NotStopped => /\ process[LISTENER].pc \in LoopSteps
                      /\ LISTEN_FD \in process[LISTENER].open)
  /\ [][ChildSteps => process'[LISTENER] = process[LISTENER]]_vars

\* a connection was accepted after a handler had failed
C25_Witness ==
  /\ process[LISTENER].pc = "fork"
  /\ process[LISTENER].after_failures > 0
  /\ \E i \in Children : process[i].failed = "handle_client"

\* C26: while the listening process accepts connections its TLS context and
\* listening socket are the ones created at startup, created once, still
\* allocated and open, whatever the handlers have done.
C26_ServerSessionIntactWhileAccepting ==
  process[LISTENER].pc \in LoopSteps =>
    /\ process[LISTENER].created = 1
    /\ process[LISTENER].ssl_ctx = CTX
    /\ CTX \in process[LISTENER].live
    /\ process[LISTENER].sockfd = LISTEN_FD
    /\ LISTEN_FD \in process[LISTENER].open
    /\ process[LISTENER].ssl = NULL
    /\ process[LISTENER].misuse = {}

\* the listening process is accepting after a child has run server_cleanup
\* twice on its copy of the context
C26_Witness ==
  /\ process[LISTENER].pc = "accept"
  /\ \E i \in Children :
       "SSL_CTX_free of freed memory" \in process[i].misuse

\* the listening process has handled SIGINT
Interrupted == process[LISTENER].interrupts > 0

C28_StartupFailureReturnsMinusOne ==
  process[LISTENER].failed # "" =>
    /\ process[LISTENER].pc \in { "returned", "exited", "crashed" }
    /\ process[LISTENER].ret = -1
    /\ process[LISTENER].accepts = 0

\* listen() failed, the last step before the loop
C28_Witness ==
  /\ process[LISTENER].failed = "listen"
  /\ process[LISTENER].pc = "returned"

\* C29: server_init returns -1 when the accept loop ended because
\* client_loop reported a failure of accept() or fork().
C29_LoopErrorReturnsMinusOne ==
  ( /\ process[LISTENER].pc = "returned"
    /\ process[LISTENER].serving_clients = -1 )
  => process[LISTENER].ret = -1

\* C30: up to the accept loop, and after a failed startup, server_cleanup in
\* the listening process has freed only allocated TLS objects and closed
\* only an open descriptor.
C30_CleanupSafeDuringStartup ==
  process[LISTENER].accepts = 0 => process[LISTENER].misuse = {}

(***************************************************************************)
(* Properties of the connection handler: what is resolved and what is      *)
(* sent.                                                                   *)
(***************************************************************************)
\* the steps of handle_client between the return of the resolver and the
\* end of the transmission
TransmissionSteps ==
  { "construct_header", "write_header", "read_file", "write_body" }

\* the header construct_header builds from the resolved pair
HeaderOfPair ==
  { construct_header(response_code, path_buffer, u) : u \in UninitContentType }

\* C31: the resolver produces one (status, path) pair per request, with a
\* status among 200, 403, 404 and 405; no step from its return to the end
\* of the transmission changes the pair, the header sent is the one built
\* from the pair, and the body sent is the file read from the pair's path.
C31_ResolutionProducedOnceImmutable ==
  /\ [](pc \in TransmissionSteps \cup { "shutdown", "cleanup" } =>
          /\ response_code \in { 200, 403, 404, 405 }
          /\ Len(checks) > 0
          /\ Len(sent) >= 1 => sent[1] \in HeaderOfPair
          /\ Len(sent) = 2 => sent[2] = read_file(files, path_buffer))
  /\ [][ /\ pc \in TransmissionSteps \cup { "shutdown", "cleanup" } =>
              UNCHANGED << response_code, path_buffer, checks >>
         /\ response_code' # response_code =>
              pc = "determine_response_code" ]_vars

\* header and body of an error page were sent for a request that named
\* another file
C31_Witness ==
  /\ pc = "shutdown"
  /\ response_code = 404
  /\ Len(sent) = 2
  /\ path_buffer # RequestedFilePath(file_request)

\* the request read from the client is a HEAD request
IsHead == get_method(request_buffer) = "HEAD"

\* C32: for a HEAD request only the header is sent; for a GET request the
\* header is followed by the body.
C32_HeadSendsHeaderOnly ==
  /\ IsHead => Len(sent) <= 1
  /\ (pc = "shutdown" /\ get_method(request_buffer) = "GET") => Len(sent) = 2

\* C33: on the successful path SSL_shutdown is attempted after the body
\* write and before the session is freed and the socket closed; whether it
\* succeeds or fails, the session is then freed and the accepted socket
\* closed.
C33_ShutdownBestEffort ==
  /\ [](/\ close_notify # "none" => Len(sent) = 2
        /\ pc = "cleanup" => /\ close_notify # "none"
                             /\ released.ssl = 0
                             /\ released.clientfd = 0
        /\ (pc = "returned" /\ close_notify # "none") =>
             /\ released.ssl = 1
             /\ released.clientfd = 1)
  /\ [][ close_notify' # close_notify =>
           /\ pc = "shutdown"
           /\ pc' = "cleanup"
           /\ UNCHANGED << released, sent, ssl >> ]_vars

\* SSL_shutdown failed and the handler returned with the session freed and
\* the accepted socket closed
C33_Witness ==
  /\ pc = "returned"
  /\ close_notify = "failed"
  /\ released.ssl = 1
  /\ released.clientfd = 1

(***************************************************************************)
(* Properties of the child processes (ServerSpec, FairServerSpec).         *)
(***************************************************************************)
\* C34: under fair scheduling every child that was created ends, and every
\* child that has ended is eventually removed from the system.
C34_ChildrenEventuallyReaped ==
  \A i \in Children :
    /\ (process[i].pc = "child") ~> Zombie(i)
    /\ Zombie(i) ~> (process[i].pc = "reaped")

\* C35: a child never accepts connections: it is never at accept() or
\* fork(), its count of accept() calls stays the one it was forked with,
\* and once handle_client has returned, on success or on error, client_loop
\* has returned 0 and server_init has left the loop.
C35_ChildNeverAccepts ==
  /\ [](\A i \in Children :
          /\ process[i].pc \notin LoopSteps
          /\ process[i].pc \notin { "none", "reaped" } =>
               process[i].accepts = i
          /\ process[i].pc = "returned" =>
               /\ process[i].serving_clients = 0
               /\ process[i].ret = 0)
  /\ [][ \A i \in Children :
           process[i].pc = "handled" =>
             process'[i].pc \in { "handled", "returned" } \cup EndedSteps ]_vars

\* a child whose handler failed has left the loop, and so has one whose
\* handler succeeded
C35_Witness ==
  \E i, j \in Children :
    /\ process[i].pc = "returned"
    /\ process[i].failed = "handle_client"
    /\ process[j].pc = "returned"
    /\ process[j].failed = ""

\* C36: server_cleanup is idempotent within a process: however often it is
\* called, the TLS session, the TLS context and the listening descriptor
\* are each released at most once.
C36_CleanupIdempotent ==
  /\ released.ssl <= 1
  /\ released.ssl_ctx <= 1
  /\ released.sockfd <= 1

\* C37: whenever SIGINT is delivered to a process, the server_cleanup of
\* the handler releases nothing the interrupted code had already released:
\* the step adds no free of freed memory and no close of a closed
\* descriptor.
C37_InterruptCleanupReleasesNothingTwice ==
  [][ \A i \in Processes :
        process'[i].interrupts > process[i].interrupts =>
          process'[i].misuse = process[i].misuse ]_vars

(***************************************************************************)
(* GET and HEAD.                                                           *)
(***************************************************************************)
\* the same request line sent with the other supported method
Twin(r) == [ r EXCEPT !.token = IF r.token = "GET" THEN "HEAD" ELSE "GET" ]

\* what process_request leaves for request line bytes (at least
\* METHOD_LENGTH long) on filesystem fs when no allocation fails
ResolveRequest(fs, bytes) ==
  determine_response_code(
    fs, bytes, RequestedFilePath(isolate_file_request(bytes, NoGarbage)))

\* a GET or HEAD request whose target begins with '/' has been resolved
SlashTargetResolved ==
  /\ Resolved
  /\ GetOrHead
  /\ CharAt(req.target, 1) = "/"

\* C38: for a target that begins with '/', on any filesystem, the pair
\* (status, path) resolved for the request is the pair the same request
\* with the other method resolves to, although the 5-byte skip leaves the
\* leading '/' in place for HEAD and removes it for GET.
C38_GetHeadResolveAlike ==
  SlashTargetResolved =>
    /\ ResolveRequest(files, Bytes(Twin(req))).code = response_code
    /\ ResolveRequest(files, Bytes(Twin(req))).path = path_buffer

\* a HEAD request, whose isolated target kept its leading '/', resolved to
\* the file the GET request resolves to
C38_Witness ==
  /\ SlashTargetResolved
  /\ req.token = "HEAD"
  /\ req.target = "/index.html"
  /\ file_request = "/index.html"
  /\ isolate_file_request(Bytes(Twin(req)), NoGarbage) = "index.html"
  /\ response_code = 200
  /\ path_buffer = WebsiteRoot \o "/index.html"

(***************************************************************************)
(* Numerical properties, functions called on their own.                    *)
(***************************************************************************)
\* C39: for every target a request can carry, the path built by
\* get_requested_file_path, and the error-page path built by
\* handle_error_case, fit with their terminator in the PATH_MAX bytes of
\* the path buffer.
C39_PathFitsBuffer ==
  ( /\ call.fn \in { "get_requested_file_path", "handle_error_case" }
    /\ call.calls = 1 )
  => /\ call.written <= PATH_MAX
     /\ ~call.fault

\* the extension get_content_type searched for in a finished call
Searched ==
  /\ call.fn = "get_content_type"
  /\ call.calls = 1
  /\ get_file_extension(call.path) # NULL

\* C40: the binary search of get_content_type indexes the MIME table only
\* at positions 0..NUM_OF_MIME_TYPES-1 and ends for every extension; for an
\* extension that sorts before the first entry or after the last one it
\* ends with 'not found'.
C40_SearchStaysInTable ==
  Searched =>
    /\ MimeIndex(call.path) # OUT_OF_TABLE
    /\ ~call.fault
    /\ ( \/ strcmp(get_file_extension(call.path),
                   mime_type_associations[1].extension) < 0
         \/ strcmp(get_file_extension(call.path),
                   mime_type_associations[NUM_OF_MIME_TYPES].extension) > 0 )
       => MimeIndex(call.path) = NOT_FOUND

====
